---- MODULE Spec2Model ----
(***************************************************************************)
(* A model of the Context module of @effect/data (src/src/Context.ts):     *)
(* Tags (allocation identity, or global identity through a process-wide    *)
(* registry of keys) and Contexts (immutable tables from Tags to services, *)
(* held in an insertion-ordered Map, `unsafeMap`).                         *)
(*                                                                         *)
(* src/src/Context.ts binds every public operation to the internal module  *)
(* @effect/data/internal/Context (imported as C).  The public bindings are *)
(* modelled from src/src/Context.ts; the bodies of the internal module     *)
(* (the internal_ definitions, TagImpl, ContextImpl) are modelled from the *)
(* documented behaviour.                                                   *)
(*                                                                         *)
(* The specifications:                                                     *)
(*   Spec            a session: from the empty process, any sequence of    *)
(*                   Tag constructions and Context constructions;          *)
(*   SpecLaw         one call of one operation on Contexts drawn from the  *)
(*                   Contexts a session can build (the operations are      *)
(*                   pure);                                                *)
(*   SpecEqual       one comparison of two drawn Contexts;                 *)
(*   SpecConcurrent  two callers deriving Contexts from one base;          *)
(*   SpecChainable   andThenDiscard and tap of Chainable on Options        *)
(*                   (src/unnamed/part_001).                               *)
(***************************************************************************)
EXTENDS Naturals, Sequences, FiniteSets

\* ---------------------------------------------------------------- bounds
\* Tag objects that may be allocated in one run.
MaxTags == 2
\* Context objects that may be allocated in one run.
MaxCtx == 3

\* The numbers an Option may hold, in the calls of andThenDiscard and tap.
MaxValue == 3

\* The keys a caller passes to Tag(key); NoKey is the omitted argument.
Keys == {"PORT", "HOST"}
NoKey == "undefined"

\* A service is a JavaScript value: `ref` is its reference identity,
\* `isEqual` tells whether it implements Equal, and `data` is what its Equal
\* implementation compares.  E1 and E2 are two objects that implement Equal
\* and are structurally equal; O1 is a plain object.
E1 == [ref |-> 1, isEqual |-> TRUE, data |-> "a"]
E2 == [ref |-> 2, isEqual |-> TRUE, data |-> "a"]
O1 == [ref |-> 3, isEqual |-> FALSE, data |-> "a"]
\* The services stored in Spec and SpecLaw, and those stored in SpecEqual.
Services == {E1, O1}
EqualServices == {E1, E2, O1}

VARIABLES
  globalStore,  \* the process-wide registry of keyed Tags: key -> Tag
  nextTag,      \* the next Tag allocation (a Tag is its allocation number)
  issued,       \* history: for each argument of Tag, the Tags it returned
  heap,         \* the Context objects allocated so far, by reference
  last          \* the last call made and what it returned; of a Tag call
                \* also whether its argument had been passed before
                \* (repeated) and whether the Tag returned is new (fresh)

vars == <<globalStore, nextTag, issued, heap, last>>

\* The Tags the caller holds: those calls of Tag have returned.
TagsMade == UNION {issued[k] : k \in DOMAIN issued}
\* The references of the Contexts allocated so far.
Refs == 1..Len(heap)

\* ------------------------------------------------------------------ Tag
\* new TagImpl(key): without a key the new allocation is the Tag; with a key
\* the Tag registered for the key is returned, the new allocation being
\* registered when the key is new.
TagImpl(store, next, key) ==
  IF key = NoKey
    THEN [store |-> store, next |-> next + 1, ret |-> next]
    ELSE IF key \in DOMAIN store
      THEN [store |-> store, next |-> next, ret |-> store[key]]
      ELSE [store |-> [k \in DOMAIN store \cup {key} |->
                         IF k = key THEN next ELSE store[k]],
            next |-> next + 1, ret |-> next]

\* Mutant: the key is not passed on, so that every call allocates.
Tag_dropsKey(store, next, key) == TagImpl(store, next, NoKey)

\* Mutant: the omitted key is registered like any key.
Tag_registersNoKey(store, next, key) ==
  IF key \in DOMAIN store
    THEN [store |-> store, next |-> next, ret |-> store[key]]
    ELSE [store |-> [k \in DOMAIN store \cup {key} |->
                       IF k = key THEN next ELSE store[k]],
          next |-> next + 1, ret |-> next]

\* Mutant: every key is looked up in one slot of the registry.
Tag_sharedSlot(store, next, key) ==
  IF key = NoKey THEN TagImpl(store, next, key) ELSE TagImpl(store, next, "PORT")

\* Mutant: a call with a key always allocates, and registers the new Tag.
Tag_reregisters(store, next, key) ==
  IF key = NoKey
    THEN [store |-> store, next |-> next + 1, ret |-> next]
    ELSE [store |-> [k \in DOMAIN store \cup {key} |->
                       IF k = key THEN next ELSE store[k]],
          next |-> next + 1, ret |-> next]

\* export const Tag = (key?) => new C.TagImpl(key)
Tag(store, next, key) == TagImpl(store, next, key)

\* ------------------------------------------------------- the Map of a Context
\* A Map is the sequence of its entries in insertion order, one per key.
EmptyMap == << >>
MapKeys(m) == {m[i].tag : i \in DOMAIN m}
MapHas(m, tag) == tag \in MapKeys(m)
MapIndex(m, tag) == CHOOSE i \in DOMAIN m : m[i].tag = tag
MapGet(m, tag) == m[MapIndex(m, tag)].service
\* Map.prototype.set: an existing key keeps its place and takes the value.
MapSet(m, tag, service) ==
  IF MapHas(m, tag)
    THEN [m EXCEPT ![MapIndex(m, tag)].service = service]
    ELSE Append(m, [tag |-> tag, service |-> service])

RECURSIVE MapSetAll(_, _)
\* for (const [tag, s] of entries) map.set(tag, s)
MapSetAll(m, entries) ==
  IF entries = << >> THEN m
  ELSE MapSetAll(MapSet(m, Head(entries).tag, Head(entries).service), Tail(entries))

\* ------------------------------------------------------------- Context
ContextImpl(unsafeMap) == [unsafeMap |-> unsafeMap]

\* Every operation takes the heap and returns the heap after it together
\* with what it returns (a reference, for the constructors and mutations).
Alloc(h, unsafeMap) ==
  [heap |-> Append(h, ContextImpl(unsafeMap)), ret |-> Len(h) + 1]

internal_empty(h) == Alloc(h, EmptyMap)

internal_make(h, tag, service) ==
  Alloc(h, MapSet(EmptyMap, tag, service))

internal_add(h, self, tag, service) ==
  Alloc(h, MapSet(h[self].unsafeMap, tag, service))

internal_merge(h, self, that) ==
  Alloc(h, MapSetAll(h[self].unsafeMap, h[that].unsafeMap))

internal_pick(h, self, tags) ==
  Alloc(h, SelectSeq(h[self].unsafeMap, LAMBDA e : e.tag \in tags))

\* ---------------------------------------------------------------- lookups
\* The error of a failed lookup: it carries the identity of the Tag asked
\* for, and whether the Context asked holds any entry (a Context that was
\* never populated is told from a populated one asked for a wrong Tag).
MissingServiceError(tag, populated) ==
  [kind |-> "MissingServiceError", tag |-> tag, populated |-> populated]
Returned(service) == [kind |-> "value", service |-> service]
some(service) == [kind |-> "Some", value |-> service]
none == [kind |-> "None"]

\* A lookup allocates nothing: the heap it returns is the heap it was given.
Result(h, ret) == [heap |-> h, ret |-> ret]

internal_unsafeGet(h, self, tag) ==
  IF ~MapHas(h[self].unsafeMap, tag)
    THEN Result(h, MissingServiceError(tag, h[self].unsafeMap # EmptyMap))
    ELSE Result(h, Returned(MapGet(h[self].unsafeMap, tag)))

internal_get(h, self, tag) == internal_unsafeGet(h, self, tag)

internal_getOption(h, self, tag) ==
  IF ~MapHas(h[self].unsafeMap, tag)
    THEN Result(h, none)
    ELSE Result(h, some(MapGet(h[self].unsafeMap, tag)))

\* --------------------------------------------------------------- equality
\* Equal.equals on services: the values' own Equal implementation when both
\* have one, reference identity otherwise.
Equal_equals(x, y) ==
  IF x.ref = y.ref THEN TRUE
  ELSE IF x.isEqual /\ y.isEqual THEN x.data = y.data
  ELSE FALSE

RECURSIVE EveryEntryIn(_, _)
\* for (const k of this.unsafeMap.keys()): that has k with an equal value
EveryEntryIn(entries, thatMap) ==
  IF entries = << >> THEN TRUE
  ELSE IF ~MapHas(thatMap, Head(entries).tag) THEN FALSE
  ELSE IF ~Equal_equals(Head(entries).service, MapGet(thatMap, Head(entries).tag))
    THEN FALSE
  ELSE EveryEntryIn(Tail(entries), thatMap)

\* Context's implementation of Equal: the same size, and every entry of
\* this in that.
ContextImpl_equals(this, that) ==
  IF Len(this.unsafeMap) = Len(that.unsafeMap)
    THEN EveryEntryIn(this.unsafeMap, that.unsafeMap)
    ELSE FALSE

\* Mutant: a Context has no Equal implementation of its own, and two
\* Contexts are equal when they are one object.
Context_equals_byReference(h, self, that) == self = that

\* Mutant: the Maps are compared entry by entry in insertion order.
Context_equals_ordered(h, self, that) ==
  /\ Len(h[self].unsafeMap) = Len(h[that].unsafeMap)
  /\ \A i \in DOMAIN h[self].unsafeMap :
       /\ h[self].unsafeMap[i].tag = h[that].unsafeMap[i].tag
       /\ Equal_equals(h[self].unsafeMap[i].service, h[that].unsafeMap[i].service)

\* interface Context<Services> extends Equal
Context_equals(h, self, that) == ContextImpl_equals(h[self], h[that])

\* ------------------------------------------------------------------- hash
\* Context's implementation of Hash: the hash of the size of the Map, which
\* neither the order of insertion nor the services enter.
ContextImpl_hash(this) == Len(this.unsafeMap)

\* A Tag is hashed as the object it is: by its identity.
TagImpl_hash(tag) == tag

\* Mutant: the hash is combined from the Tags in the order of the Map.
Context_hash_ordered(h, self) ==
  [i \in DOMAIN h[self].unsafeMap |-> h[self].unsafeMap[i].tag]

\* interface Context<Services> extends Equal (and Equal extends Hash)
Context_hash(h, self) == ContextImpl_hash(h[self])
Tag_hash(tag) == TagImpl_hash(tag)

\* ------------------------------------------------------------------ guards
\* The guards take any JavaScript value.  A value is what typeof says of it,
\* whether it is null, its `_id` property ("absent" when it has none), and
\* what built it: Tag, a Context operation, or something else.
TagTypeId == "TagTypeId"
TypeId == "ContextTypeId"

TagValue(tag) ==
  [typeof |-> "object", isNull |-> FALSE, id |-> TagTypeId, made |-> "Tag", ref |-> tag]
ContextValue(ref) ==
  [typeof |-> "object", isNull |-> FALSE, id |-> TypeId, made |-> "Context", ref |-> ref]
JsNull ==
  [typeof |-> "object", isNull |-> TRUE, id |-> "absent", made |-> "other", ref |-> 0]
JsUndefined ==
  [typeof |-> "undefined", isNull |-> FALSE, id |-> "absent", made |-> "other", ref |-> 0]
JsNumber ==
  [typeof |-> "number", isNull |-> FALSE, id |-> "absent", made |-> "other", ref |-> 0]
JsObject ==
  [typeof |-> "object", isNull |-> FALSE, id |-> "absent", made |-> "other", ref |-> 0]

\* What a guard returns, and the TypeError of reading a property of null or
\* undefined.
Bool(b) == [kind |-> "boolean", value |-> b]
TypeError == [kind |-> "TypeError"]

\* typeof u === "object" && u !== null && "_id" in u && u["_id"] === TagTypeId
internal_isTag(u) ==
  IF u.typeof # "object" THEN Bool(FALSE)
  ELSE IF u.isNull THEN Bool(FALSE)
  ELSE IF u.id = "absent" THEN Bool(FALSE)
  ELSE Bool(u.id = TagTypeId)

\* typeof u === "object" && u !== null && "_id" in u && u["_id"] === TypeId
internal_isContext(u) ==
  IF u.typeof # "object" THEN Bool(FALSE)
  ELSE IF u.isNull THEN Bool(FALSE)
  ELSE IF u.id = "absent" THEN Bool(FALSE)
  ELSE Bool(u.id = TypeId)

\* Mutant: the guard reads `_id` without looking at the value first.
isTag_readsId(u) ==
  IF u.isNull \/ u.typeof = "undefined" THEN TypeError
  ELSE Bool(u.id = TagTypeId)

isContext(input) == internal_isContext(input)
isTag(input) == internal_isTag(input)

\* ------------------------------------------------- the public bindings
\* Mutant: add writes into the Map of self and returns self.
add_inPlace(h, self, tag, service) ==
  [heap |-> [h EXCEPT ![self] = ContextImpl(MapSet(h[self].unsafeMap, tag, service))],
   ret |-> self]

\* Mutant: add builds the Context from the new entry alone.
add_asMake(h, self, tag, service) == internal_make(h, tag, service)

\* What Map.prototype.get returns for a key the Map does not hold.
Undefined == [ref |-> 0, isEqual |-> FALSE, data |-> "undefined"]

\* Mutant: the lookup returns what Map.prototype.get returns, present or not.
lookup_unchecked(h, self, tag) ==
  Result(h, Returned(IF MapHas(h[self].unsafeMap, tag)
                       THEN MapGet(h[self].unsafeMap, tag) ELSE Undefined))

\* Mutant: getOption wraps what Map.prototype.get returns, present or not.
getOption_unchecked(h, self, tag) ==
  Result(h, some(IF MapHas(h[self].unsafeMap, tag)
                   THEN MapGet(h[self].unsafeMap, tag) ELSE Undefined))

\* Mutant: the operands of merge are taken in the other order.
merge_leftBiased(h, self, that) == internal_merge(h, that, self)

\* Mutant: merge returns the entries of that alone.
merge_thatOnly(h, self, that) == Alloc(h, h[that].unsafeMap)

\* Mutant: merge returns the entries of self alone.
merge_keepsSelf(h, self, that) == Alloc(h, h[self].unsafeMap)

\* Mutant: add appends the entry without looking for the Tag.
add_appends(h, self, tag, service) ==
  Alloc(h, Append(h[self].unsafeMap, [tag |-> tag, service |-> service]))

RECURSIVE SetAbsent(_, _)
\* Mutant: pick looks every listed Tag up in the Map of self and stores what
\* it finds, so that a Tag self does not hold gets an entry.
SetAbsent(m, tags) ==
  IF tags = {} THEN m
  ELSE LET t == CHOOSE x \in tags : TRUE
       IN SetAbsent(IF MapHas(m, t) THEN m ELSE MapSet(m, t, Undefined), tags \ {t})
pick_storesAbsent(h, self, tags) ==
  Alloc(h, SetAbsent(SelectSeq(h[self].unsafeMap, LAMBDA e : e.tag \in tags), tags))

\* Mutant: make returns the empty Context.
make_empty(h, tag, service) == internal_empty(h)

\* Mutant: getOption wraps what unsafeGet returns and lets its error through.
getOption_viaUnsafeGet(h, self, tag) ==
  LET r == internal_unsafeGet(h, self, tag)
  IN IF r.ret.kind = "value" THEN Result(h, some(r.ret.service)) ELSE r

\* Mutant: the error of a failed lookup is the same whatever the Tag and the
\* Context.
unsafeGet_bareError(h, self, tag) ==
  IF MapHas(h[self].unsafeMap, tag)
    THEN Result(h, Returned(MapGet(h[self].unsafeMap, tag)))
    ELSE Result(h, [kind |-> "MissingServiceError", tag |-> 0, populated |-> FALSE])

\* Mutant: pick returns every entry of self, listed or not.
pick_keepsAll(h, self, tags) == Alloc(h, h[self].unsafeMap)

\* Mutant: merge appends the entries of that to those of self.
merge_concat(h, self, that) == Alloc(h, h[self].unsafeMap \o h[that].unsafeMap)

\* Mutant: add keeps the service of a Tag the Context already holds.
add_keepsFirst(h, self, tag, service) ==
  IF MapHas(h[self].unsafeMap, tag)
    THEN Alloc(h, h[self].unsafeMap)
    ELSE Alloc(h, MapSet(h[self].unsafeMap, tag, service))

\* Mutant: merge drops the Tags that self and that both hold.
merge_dropsShared(h, self, that) ==
  Alloc(h, SelectSeq(h[self].unsafeMap, LAMBDA e : ~MapHas(h[that].unsafeMap, e.tag))
             \o SelectSeq(h[that].unsafeMap, LAMBDA e : ~MapHas(h[self].unsafeMap, e.tag)))

\* Mutant: pick keeps a Tag of self when any Tag is listed.
pick_anyListed(h, self, tags) ==
  Alloc(h, IF tags = {} THEN EmptyMap ELSE h[self].unsafeMap)

empty(h) == internal_empty(h)
make(h, tag, service) == internal_make(h, tag, service)
add(h, self, tag, service) == internal_add(h, self, tag, service)
get(h, self, tag) == internal_get(h, self, tag)
unsafeGet(h, self, tag) == internal_unsafeGet(h, self, tag)
getOption(h, self, tag) == internal_getOption(h, self, tag)
merge(h, self, that) == internal_merge(h, self, that)
pick(h, self, tags) == internal_pick(h, self, tags)

\* ---------------------------------------------------------------- actions
NoCall == [op |-> "none"]

Init ==
  /\ globalStore = << >>
  /\ nextTag = 1
  /\ issued = [k \in Keys \cup {NoKey} |-> {}]
  /\ heap = << >>
  /\ last = NoCall

TagCall(key) ==
  /\ key \in DOMAIN globalStore \/ nextTag <= MaxTags
  /\ LET r == Tag(globalStore, nextTag, key) IN
       /\ globalStore' = r.store
       /\ nextTag' = r.next
       /\ issued' = [issued EXCEPT ![key] = @ \cup {r.ret}]
       /\ last' = [op |-> "Tag", key |-> key, ret |-> r.ret,
                   repeated |-> issued[key] # {}, fresh |-> r.ret \notin TagsMade]
  /\ UNCHANGED heap

EmptyCall ==
  /\ Len(heap) < MaxCtx
  /\ LET r == empty(heap) IN
       /\ heap' = r.heap
       /\ last' = [op |-> "empty", ret |-> r.ret]
  /\ UNCHANGED <<globalStore, nextTag, issued>>

MakeCall(tag, service) ==
  /\ Len(heap) < MaxCtx
  /\ LET r == make(heap, tag, service) IN
       /\ heap' = r.heap
       /\ last' = [op |-> "make", tag |-> tag, service |-> service, ret |-> r.ret]
  /\ UNCHANGED <<globalStore, nextTag, issued>>

AddCall(self, tag, service) ==
  /\ Len(heap) < MaxCtx
  /\ LET r == add(heap, self, tag, service) IN
       /\ heap' = r.heap
       /\ last' = [op |-> "add", self |-> self, tag |-> tag,
                   service |-> service, ret |-> r.ret]
  /\ UNCHANGED <<globalStore, nextTag, issued>>

MergeCall(self, that) ==
  /\ Len(heap) < MaxCtx
  /\ LET r == merge(heap, self, that) IN
       /\ heap' = r.heap
       /\ last' = [op |-> "merge", self |-> self, that |-> that, ret |-> r.ret]
  /\ UNCHANGED <<globalStore, nextTag, issued>>

PickCall(self, tags) ==
  /\ Len(heap) < MaxCtx
  /\ LET r == pick(heap, self, tags) IN
       /\ heap' = r.heap
       /\ last' = [op |-> "pick", self |-> self, tags |-> tags, ret |-> r.ret]
  /\ UNCHANGED <<globalStore, nextTag, issued>>

GetCall(self, tag) ==
  /\ LET r == get(heap, self, tag) IN
       /\ heap' = r.heap
       /\ last' = [op |-> "get", self |-> self, tag |-> tag, ret |-> r.ret]
  /\ UNCHANGED <<globalStore, nextTag, issued>>

UnsafeGetCall(self, tag) ==
  /\ LET r == unsafeGet(heap, self, tag) IN
       /\ heap' = r.heap
       /\ last' = [op |-> "unsafeGet", self |-> self, tag |-> tag, ret |-> r.ret]
  /\ UNCHANGED <<globalStore, nextTag, issued>>

GetOptionCall(self, tag) ==
  /\ LET r == getOption(heap, self, tag) IN
       /\ heap' = r.heap
       /\ last' = [op |-> "getOption", self |-> self, tag |-> tag, ret |-> r.ret]
  /\ UNCHANGED <<globalStore, nextTag, issued>>

\* The values a caller may hand to a guard: the Tags and the Contexts made
\* so far, null, undefined, a number and a plain object.
Inputs ==
  {TagValue(t) : t \in TagsMade} \cup {ContextValue(r) : r \in Refs}
    \cup {JsNull, JsUndefined, JsNumber, JsObject}

IsContextCall(input) ==
  /\ last' = [op |-> "isContext", input |-> input, ret |-> isContext(input)]
  /\ UNCHANGED <<globalStore, nextTag, issued, heap>>

IsTagCall(input) ==
  /\ last' = [op |-> "isTag", input |-> input, ret |-> isTag(input)]
  /\ UNCHANGED <<globalStore, nextTag, issued, heap>>

EqualsCall(self, that) ==
  /\ last' = [op |-> "equals", self |-> self, that |-> that,
              ret |-> Context_equals(heap, self, that)]
  /\ UNCHANGED <<globalStore, nextTag, issued, heap>>

\* ----------------------------------------------------------- Spec: a session
Next ==
  \/ \E key \in Keys \cup {NoKey} : TagCall(key)
  \/ EmptyCall
  \/ \E tag \in TagsMade, service \in Services : MakeCall(tag, service)
  \/ \E self \in Refs, tag \in TagsMade, service \in Services : AddCall(self, tag, service)
  \/ \E self \in Refs, that \in Refs : MergeCall(self, that)
  \/ \E self \in Refs, tags \in SUBSET TagsMade : PickCall(self, tags)

Spec == Init /\ [][Next]_vars

\* ------------------------------------- SpecLaw, SpecEqual: one call on drawn Contexts
\* The Tags of a drawn state: Tag("PORT") was called first, then Tag() until
\* MaxTags Tags exist.
RECURSIVE AfterTagCalls(_, _)
AfterTagCalls(st, n) ==
  IF n = 0 THEN st
  ELSE LET key == IF st.next = 1 THEN "PORT" ELSE NoKey
           r == Tag(st.store, st.next, key)
       IN AfterTagCalls([store |-> r.store, next |-> r.next,
                         issued |-> [st.issued EXCEPT ![key] = @ \cup {r.ret}]],
                        n - 1)

DrawnTags ==
  AfterTagCalls([store |-> << >>, next |-> 1,
                 issued |-> [k \in Keys \cup {NoKey} |-> {}]], MaxTags)

RECURSIVE MapsOver(_, _)
\* Every Map a sequence of set calls builds over the Tags T and services S:
\* the entries in any insertion order, each Tag at most once.
MapsOver(T, S) ==
  {EmptyMap} \cup
  UNION {{MapSet(m, t, s) : m \in MapsOver(T \ {t}, S), s \in S} : t \in T}

\* Two Contexts, self and that, drawn from the Contexts over the drawn Tags.
InitDrawn(S) ==
  /\ globalStore = DrawnTags.store
  /\ nextTag = DrawnTags.next
  /\ issued = DrawnTags.issued
  /\ heap \in {<<ContextImpl(a), ContextImpl(b)>> :
                 a \in MapsOver(1..MaxTags, S), b \in MapsOver(1..MaxTags, S)}
  /\ last = NoCall

InitLaw == InitDrawn(Services)

NextLaw ==
  \/ last = NoCall /\ EmptyCall
  \/ last = NoCall /\ \E tag \in TagsMade, service \in Services : MakeCall(tag, service)
  \/ last = NoCall /\ \E self \in Refs, tag \in TagsMade, service \in Services :
                        AddCall(self, tag, service)
  \/ last = NoCall /\ \E self \in Refs, that \in Refs : MergeCall(self, that)
  \/ last = NoCall /\ \E self \in Refs, tags \in SUBSET TagsMade : PickCall(self, tags)
  \/ last = NoCall /\ \E self \in Refs, tag \in TagsMade : GetCall(self, tag)
  \/ last = NoCall /\ \E self \in Refs, tag \in TagsMade : UnsafeGetCall(self, tag)
  \/ last = NoCall /\ \E self \in Refs, tag \in TagsMade : GetOptionCall(self, tag)
  \/ last = NoCall /\ \E input \in Inputs : IsContextCall(input)
  \/ last = NoCall /\ \E input \in Inputs : IsTagCall(input)

SpecLaw == InitLaw /\ [][NextLaw]_vars

InitEqual == InitDrawn(EqualServices)

NextEqual ==
  /\ last = NoCall
  /\ \E self \in Refs, that \in Refs : EqualsCall(self, that)

SpecEqual == InitEqual /\ [][NextEqual]_vars

\* ------------------------- SpecConcurrent: two callers derive from one base
\* The operations are synchronous and run to completion, so that two callers
\* interleave whole calls.  The base is the first Context; a caller derives
\* from the base and from the Contexts it has derived itself.  `last` keeps
\* the base as it was at the start and the log of the calls made.  The base
\* holds the service E1 for its Tags; the callers add O1.
Callers == {1, 2}

InitConcurrent ==
  /\ globalStore = DrawnTags.store
  /\ nextTag = DrawnTags.next
  /\ issued = DrawnTags.issued
  /\ heap \in {<<ContextImpl(a)>> : a \in MapsOver(1..MaxTags, {E1})}
  /\ last = [op |-> "none", base |-> heap[1], log |-> << >>]

\* The Contexts a caller may derive from.
Own(caller) ==
  {1} \cup {last.log[i].ret : i \in {j \in DOMAIN last.log : last.log[j].caller = caller}}

Logged(call) == [op |-> call.op, base |-> last.base, log |-> Append(last.log, call)]

DeriveAdd(caller, self, tag, service) ==
  /\ Len(heap) < MaxCtx
  /\ LET r == add(heap, self, tag, service) IN
       /\ heap' = r.heap
       /\ last' = Logged([caller |-> caller, op |-> "add", self |-> self, that |-> self,
                          tag |-> tag, service |-> service, tags |-> {}, ret |-> r.ret])
  /\ UNCHANGED <<globalStore, nextTag, issued>>

DeriveMerge(caller, self, that) ==
  /\ Len(heap) < MaxCtx
  /\ LET r == merge(heap, self, that) IN
       /\ heap' = r.heap
       /\ last' = Logged([caller |-> caller, op |-> "merge", self |-> self, that |-> that,
                          tag |-> 0, service |-> E1, tags |-> {}, ret |-> r.ret])
  /\ UNCHANGED <<globalStore, nextTag, issued>>

DerivePick(caller, self, tags) ==
  /\ Len(heap) < MaxCtx
  /\ LET r == pick(heap, self, tags) IN
       /\ heap' = r.heap
       /\ last' = Logged([caller |-> caller, op |-> "pick", self |-> self, that |-> self,
                          tag |-> 0, service |-> E1, tags |-> tags, ret |-> r.ret])
  /\ UNCHANGED <<globalStore, nextTag, issued>>

NextConcurrent ==
  \/ \E caller \in Callers : \E self \in Own(caller), tag \in TagsMade, service \in {O1} :
       DeriveAdd(caller, self, tag, service)
  \/ \E caller \in Callers : \E self \in Own(caller), that \in Own(caller) :
       DeriveMerge(caller, self, that)
  \/ \E caller \in Callers : \E self \in Own(caller), tags \in SUBSET TagsMade :
       DerivePick(caller, self, tags)

SpecConcurrent == InitConcurrent /\ [][NextConcurrent]_vars

\* ------------------------------- SpecChainable: Option as a Chainable
\* The Options over the numbers, and the functions from a number to an
\* Option that tap may be given.
Numbers == 1..MaxValue
Options == {none} \cup {some(n) : n \in Numbers}

\* Option's instance of Covariant and FlatMap; f is a function on Numbers.
Option_map(self, f) ==
  IF self.kind = "None" THEN none ELSE some(f[self.value])
Option_flatMap(self, f) ==
  IF self.kind = "None" THEN none ELSE f[self.value]

\* tap(F)(self, f) = F.flatMap(self, a => F.map(f(a), () => a))
Chainable_tap(self, f) ==
  Option_flatMap(self, [a \in Numbers |-> Option_map(f[a], [b \in Numbers |-> a])])

\* andThenDiscard(F)(self, that) = tap(F)(self, () => that)
Chainable_andThenDiscard(self, that) ==
  Chainable_tap(self, [a \in Numbers |-> that])

\* Mutant: the value of the second effect is kept, that of self discarded.
tap_keepsSecond(self, f) == Option_flatMap(self, f)

\* const andThenDiscard = _.andThenDiscard(O.Chainable)
andThenDiscard(self, that) == Chainable_andThenDiscard(self, that)
\* const tap = _.tap(O.Chainable)
tap(self, f) == Chainable_tap(self, f)

AndThenDiscardCall(self, that) ==
  /\ last' = [op |-> "andThenDiscard", self |-> self, that |-> that,
              ret |-> andThenDiscard(self, that)]
  /\ UNCHANGED <<globalStore, nextTag, issued, heap>>

TapCall(self, f) ==
  /\ last' = [op |-> "tap", self |-> self, f |-> f, ret |-> tap(self, f)]
  /\ UNCHANGED <<globalStore, nextTag, issued, heap>>

NextChainable ==
  \/ \E self \in Options, that \in Options : AndThenDiscardCall(self, that)
  \/ \E self \in Options, f \in [Numbers -> Options] : TapCall(self, f)

SpecChainable == Init /\ [][NextChainable]_vars

\* ----------------------------------------------------------- the properties
\* What a Context holds, whatever the order of insertion.
TagsOf(c) == {c.unsafeMap[i].tag : i \in DOMAIN c.unsafeMap}
Entries(c) == {<<c.unsafeMap[i].tag, c.unsafeMap[i].service>> : i \in DOMAIN c.unsafeMap}
\* One entry per Tag.
OnePerTag(c) == Cardinality(TagsOf(c)) = Len(c.unsafeMap)
\* The service c holds for tag (tag is in c).
ServiceOf(c, tag) == CHOOSE v \in {e[2] : e \in Entries(c)} : <<tag, v>> \in Entries(c)

\* C1: merge is a right-biased union.  The Context merge(A, B) returns holds
\* exactly the Tags of A and of B, one entry each; a Tag of B has B's
\* service, a Tag of A alone has A's service.
C1_MergeRightBiased ==
  last.op = "merge" =>
    LET A == heap[last.self]
        B == heap[last.that]
        R == heap[last.ret]
    IN /\ OnePerTag(R)
       /\ TagsOf(R) = TagsOf(A) \cup TagsOf(B)
       /\ \A t \in TagsOf(B) : ServiceOf(R, t) = ServiceOf(B, t)
       /\ \A t \in TagsOf(A) \ TagsOf(B) : ServiceOf(R, t) = ServiceOf(A, t)

\* merge has returned for an A and a B that hold different services for one
\* Tag, A holding another Tag that B does not.
C1_Witness ==
  /\ last.op = "merge"
  /\ \E t \in TagsOf(heap[last.self]) \cap TagsOf(heap[last.that]) :
       ServiceOf(heap[last.self], t) # ServiceOf(heap[last.that], t)
  /\ TagsOf(heap[last.self]) \ TagsOf(heap[last.that]) # {}

\* C2: global identity.  Whatever was constructed before, all the calls
\* Tag(k) with one key k have returned one and the same Tag.
C2_GlobalIdentity ==
  /\ \A k \in Keys : Cardinality(issued[k]) <= 1
  /\ (last.op = "Tag" /\ last.key \in Keys) => issued[last.key] = {last.ret}

\* Tag(k) has returned for the second time, after a call without a key, and
\* the Tag it returned is the one a Context was built with.
C2_Witness ==
  /\ last.op = "Tag" /\ last.key \in Keys /\ last.repeated
  /\ issued[NoKey] # {}
  /\ \E r \in Refs : last.ret \in TagsOf(heap[r])

\* C3: identity uniqueness.  A call of Tag without a key returns a Tag that
\* no earlier call, with or without a key, has returned.
C3_UnkeyedUnique ==
  (last.op = "Tag" /\ last.key = NoKey) => last.fresh

\* Tag() has returned for the second time, a keyed Tag or a first unkeyed one
\* existing.
C3_Witness ==
  /\ last.op = "Tag" /\ last.key = NoKey /\ last.repeated
  /\ Cardinality(TagsMade) >= 2

\* C4: immutability.  No call changes a Context that exists: each step
\* leaves every allocated Context with the entries it had, whatever it
\* returns.
C4_Immutable ==
  [][\A r \in Refs : r \in DOMAIN heap' /\ heap'[r] = heap[r]]_vars

\* add, merge or pick has returned a Context that differs from the
\* non-empty Context it was given.
C4_Witness ==
  /\ last.op \in {"add", "merge", "pick"}
  /\ heap[last.self].unsafeMap # EmptyMap
  /\ Entries(heap[last.ret]) # Entries(heap[last.self])

\* C5: unsafeGet(C, t) returns the service C holds for t when t is in C, and
\* raises MissingServiceError, returning no value, when t is not in C.
C5_UnsafeGet ==
  last.op = "unsafeGet" =>
    LET C == heap[last.self] IN
      IF last.tag \in TagsOf(C)
        THEN last.ret.kind = "value" /\ last.ret.service = ServiceOf(C, last.tag)
        ELSE last.ret.kind = "MissingServiceError"

\* unsafeGet has raised on a Context that holds another Tag.
C5_Witness ==
  /\ last.op = "unsafeGet"
  /\ last.ret.kind = "MissingServiceError"
  /\ TagsOf(heap[last.self]) # {}

\* C6: get(C, t) with t not in C raises MissingServiceError, as unsafeGet
\* does for the same arguments: it returns no value, and it leaves every
\* Context as it was.
C6_GetRaisesWhenAbsent ==
  [][(last'.op = "get" /\ last' # last /\ last'.tag \notin TagsOf(heap[last'.self])) =>
       /\ last'.ret.kind = "MissingServiceError"
       /\ last'.ret = unsafeGet(heap, last'.self, last'.tag).ret
       /\ heap' = heap]_vars

\* get has raised on a Context that holds another Tag, whose service it
\* might have returned.
C6_Witness ==
  /\ last.op = "get"
  /\ last.ret.kind = "MissingServiceError"
  /\ TagsOf(heap[last.self]) # {}

\* C7: getOption(C, t) is Some(v) exactly when unsafeGet(C, t) and get(C, t)
\* return, v being what unsafeGet returns, and None exactly when t is not
\* in C.
C7_GetOptionConsistent ==
  last.op = "getOption" =>
    LET u == unsafeGet(heap, last.self, last.tag).ret
        g == get(heap, last.self, last.tag).ret
    IN /\ last.ret.kind \in {"Some", "None"}
       /\ (last.ret.kind = "Some") <=> (u.kind = "value" /\ g.kind = "value")
       /\ (last.ret.kind = "Some") => last.ret.value = u.service
       /\ (last.ret.kind = "None") <=> (last.tag \notin TagsOf(heap[last.self]))

\* getOption has returned Some for a Context that holds a second Tag with
\* another service.
C7_Witness ==
  /\ last.op = "getOption"
  /\ last.ret.kind = "Some"
  /\ \E t \in TagsOf(heap[last.self]) :
       ServiceOf(heap[last.self], t) # last.ret.value

\* C8: add(C, t, v) returns a Context that holds v for t and, for every
\* other Tag, exactly what C holds.
C8_Add ==
  last.op = "add" =>
    LET C == heap[last.self]
        R == heap[last.ret]
    IN /\ OnePerTag(R)
       /\ Entries(R) = {<<last.tag, last.service>>}
                         \cup {e \in Entries(C) : e[1] # last.tag}

\* add has replaced the service of a Tag in a Context that holds another Tag.
C8_Witness ==
  /\ last.op = "add"
  /\ last.tag \in TagsOf(heap[last.self])
  /\ ServiceOf(heap[last.self], last.tag) # last.service
  /\ TagsOf(heap[last.self]) \ {last.tag} # {}

\* Two services are equal: by their Equal implementation when both have
\* one, by identity otherwise.
SameValue(x, y) ==
  IF x.isEqual /\ y.isEqual THEN x.data = y.data ELSE x.ref = y.ref

\* C9: structural equality.  Two Contexts are equal if and only if they hold
\* the same Tags and, for each Tag, equal services.
C9_StructuralEquality ==
  last.op = "equals" =>
    LET A == heap[last.self]
        B == heap[last.that]
    IN last.ret <=>
         /\ TagsOf(A) = TagsOf(B)
         /\ \A t \in TagsOf(A) : SameValue(ServiceOf(A, t), ServiceOf(B, t))

\* Two Contexts were found equal that hold, for one Tag, two different
\* objects with equal Equal implementations and, for another, one plain
\* object.
C9_Witness ==
  /\ last.op = "equals" /\ last.ret
  /\ \E t \in TagsOf(heap[last.self]) :
       ServiceOf(heap[last.self], t).ref # ServiceOf(heap[last.that], t).ref
  /\ \E t \in TagsOf(heap[last.self]) : ~ServiceOf(heap[last.self], t).isEqual

\* C10: equality of Contexts is reflexive and symmetric, and two Contexts
\* with the same entries are equal in whatever order the entries were
\* inserted.
C10_EqualityLaws ==
  last.op = "equals" =>
    /\ (last.self = last.that) => last.ret
    /\ last.ret <=> Context_equals(heap, last.that, last.self)
    /\ (Entries(heap[last.self]) = Entries(heap[last.that])) => last.ret

\* Two Contexts were found equal whose entries were inserted in different
\* orders.
C10_Witness ==
  /\ last.op = "equals" /\ last.ret
  /\ Entries(heap[last.self]) = Entries(heap[last.that])
  /\ heap[last.self].unsafeMap # heap[last.that].unsafeMap

\* C11: empty() is the identity element of merge.  When merge(A, B) has
\* returned and B is what empty() returns, the result equals A; when A is
\* what empty() returns, the result equals B.
C11_MergeIdentity ==
  last.op = "merge" =>
    LET e == empty(heap)
        E == e.heap[e.ret]
    IN /\ heap[last.that] = E => Context_equals(heap, last.ret, last.self)
       /\ heap[last.self] = E => Context_equals(heap, last.ret, last.that)

\* merge has returned for a Context of two Tags and the empty Context.
C11_Witness ==
  /\ last.op = "merge"
  /\ heap[last.that].unsafeMap = EmptyMap
  /\ Cardinality(TagsOf(heap[last.self])) = 2

\* C12: add is idempotent on an equal value.  When add(C, t, v) has returned
\* R, add(R, t, v) returns a Context equal to R.
C12_AddIdempotent ==
  last.op = "add" =>
    LET again == add(heap, last.ret, last.tag, last.service)
    IN /\ Context_equals(again.heap, again.ret, last.ret)
       /\ Context_equals(again.heap, last.ret, again.ret)

\* add has returned for a Tag the Context held with another service, next to
\* another Tag.
C12_Witness ==
  /\ last.op = "add"
  /\ last.tag \in TagsOf(heap[last.self])
  /\ ServiceOf(heap[last.self], last.tag) # last.service
  /\ Cardinality(TagsOf(heap[last.self])) = 2

\* C13: pick(C, T) returns a Context that holds exactly the Tags that are in
\* T and in C, each with the service C holds for it: a Tag of T that C does
\* not hold gets no entry, and pick returns all the same.
C13_Pick ==
  last.op = "pick" =>
    LET C == heap[last.self]
        R == heap[last.ret]
    IN /\ last.ret \in Refs
       /\ OnePerTag(R)
       /\ TagsOf(R) = last.tags \cap TagsOf(C)
       /\ Entries(R) = {e \in Entries(C) : e[1] \in last.tags}

\* pick has returned a non-empty Context for a list that names a Tag the
\* Context does not hold.
C13_Witness ==
  /\ last.op = "pick"
  /\ last.tags \ TagsOf(heap[last.self]) # {}
  /\ heap[last.ret].unsafeMap # EmptyMap

\* C14: merge is commutative only when the Tags are disjoint.  When A and B
\* share no Tag, merge(A, B) equals merge(B, A); when they hold unequal
\* services for a Tag, merge(A, B) and merge(B, A) are not equal.
C14_MergeCommutes ==
  last.op = "merge" =>
    LET A == heap[last.self]
        B == heap[last.that]
        back == merge(heap, last.that, last.self)
    IN /\ (TagsOf(A) \cap TagsOf(B) = {})
            => Context_equals(back.heap, last.ret, back.ret)
       /\ (\E t \in TagsOf(A) \cap TagsOf(B) :
             ~SameValue(ServiceOf(A, t), ServiceOf(B, t)))
            => ~Context_equals(back.heap, last.ret, back.ret)

\* merge has returned for two non-empty Contexts that share no Tag.
C14_Witness ==
  /\ last.op = "merge"
  /\ TagsOf(heap[last.self]) # {} /\ TagsOf(heap[last.that]) # {}
  /\ TagsOf(heap[last.self]) \cap TagsOf(heap[last.that]) = {}

\* C15: make(t, s) returns a Context of exactly one entry: the lookups of t
\* return s, and getOption of every other Tag is None.
C15_Make ==
  last.op = "make" =>
    /\ last.ret \in Refs
    /\ Len(heap[last.ret].unsafeMap) = 1
    /\ unsafeGet(heap, last.ret, last.tag).ret = Returned(last.service)
    /\ get(heap, last.ret, last.tag).ret = Returned(last.service)
    /\ getOption(heap, last.ret, last.tag).ret = some(last.service)
    /\ \A t \in TagsMade \ {last.tag} : getOption(heap, last.ret, t).ret = none

\* make has returned while another Tag exists.
C15_Witness ==
  /\ last.op = "make"
  /\ TagsMade \ {last.tag} # {}
  /\ heap[last.ret].unsafeMap # EmptyMap


\* The operations that return a Context, and the lookups.
Constructors == {"empty", "make", "add", "merge", "pick"}
Lookups == {"get", "unsafeGet", "getOption"}

C18_Guards ==
  /\ last.op = "isTag" =>
       /\ last.ret.kind = "boolean"
       /\ last.ret.value <=> (last.input.made = "Tag")
  /\ last.op = "isContext" =>
       /\ last.ret.kind = "boolean"
       /\ last.ret.value <=> (last.input.made = "Context")

\* isTag has returned false for null.
C18_Witness ==
  /\ last.op = "isTag"
  /\ last.input = JsNull
  /\ last.ret = Bool(FALSE)

\* The services of the example: { port: 8080 } and { ms: 5000 }.
ExamplePort == O1
ExampleTimeout == E1

\* C19: the example scenario.  With Port = Tag("PORT"), Timeout = Tag() and
\* C1 = add(make(Port, p), Timeout, q): when pick(C1, Port) has returned,
\* unsafeGet(C1, Port) is p, getOption(C1, Timeout) is Some(q), the result
\* of pick equals make(Port, p), and unsafeGet of Timeout in it raises
\* MissingServiceError.
C19_Example ==
  (last.op = "pick" /\ "PORT" \in DOMAIN globalStore) =>
    \A Timeout \in issued[NoKey] :
      LET Port == globalStore["PORT"]
          m == make(<< >>, Port, ExamplePort)
          C1 == add(m.heap, m.ret, Timeout, ExampleTimeout)
          expected == make(heap, Port, ExamplePort)
      IN (last.tags = {Port} /\ heap[last.self] = C1.heap[C1.ret]) =>
           /\ unsafeGet(heap, last.self, Port).ret = Returned(ExamplePort)
           /\ getOption(heap, last.self, Timeout).ret = some(ExampleTimeout)
           /\ Context_equals(expected.heap, last.ret, expected.ret)
           /\ unsafeGet(heap, last.ret, Timeout).ret.kind = "MissingServiceError"

\* The session of the example has run: Tag("PORT") and Tag() were called,
\* make(Port, p) returned the first Context, add(it, Timeout, q) the second,
\* and pick(the second, Port) the third.
C19_Witness ==
  /\ last.op = "pick" /\ last.self = 2 /\ last.ret = 3
  /\ "PORT" \in DOMAIN globalStore
  /\ last.tags = {globalStore["PORT"]}
  /\ heap[1].unsafeMap = <<[tag |-> globalStore["PORT"], service |-> ExamplePort]>>
  /\ \E Timeout \in issued[NoKey] :
       heap[2].unsafeMap = <<[tag |-> globalStore["PORT"], service |-> ExamplePort],
                             [tag |-> Timeout, service |-> ExampleTimeout]>>

\* C20: key uniqueness.  Every Context a sequence of empty, make, add, merge
\* and pick builds holds at most one service for a Tag, also after the Tag
\* registered for a key is added or merged where it is already held.
C20_KeyUniqueness ==
  \A r \in Refs : OnePerTag(heap[r])

\* add has returned for the Tag registered for a key, which the Context
\* already held with another service.
C20_Witness ==
  /\ last.op = "add"
  /\ \E k \in DOMAIN globalStore : globalStore[k] = last.tag
  /\ last.tag \in TagsOf(heap[last.self])
  /\ ServiceOf(heap[last.self], last.tag) # last.service

\* C21: the hash contract.  Two Contexts that are equal have equal hashes,
\* whatever the order their entries were inserted in; and the Tag a second
\* construction with a key returns hashes as the Tag registered for the key.
C21_HashContract ==
  last.op = "equals" =>
    /\ last.ret => Context_hash(heap, last.self) = Context_hash(heap, last.that)
    /\ (Entries(heap[last.self]) = Entries(heap[last.that]))
         => Context_hash(heap, last.self) = Context_hash(heap, last.that)
    /\ \A k \in DOMAIN globalStore :
         Tag_hash(Tag(globalStore, nextTag, k).ret) = Tag_hash(globalStore[k])

\* Two Contexts of two Tags were found equal whose entries were inserted in
\* different orders, a keyed Tag being among them.
C21_Witness ==
  /\ last.op = "equals" /\ last.ret
  /\ Len(heap[last.self].unsafeMap) = 2
  /\ heap[last.self].unsafeMap[1].tag # heap[last.that].unsafeMap[1].tag
  /\ \E k \in DOMAIN globalStore : globalStore[k] \in TagsOf(heap[last.self])

\* One logged call, made on the heap h with the references renamed by at.
Redo(h, call, at) ==
  IF call.op = "add" THEN add(h, at[call.self], call.tag, call.service)
  ELSE IF call.op = "merge" THEN merge(h, at[call.self], at[call.that])
  ELSE pick(h, at[call.self], call.tags)

RECURSIVE Alone(_, _, _, _)
\* The calls of one caller made alone, in their order, from the base: the
\* heap they build and, for each Context of the caller in the interleaved
\* run, its reference in the run alone.
Alone(caller, log, h, at) ==
  IF log = << >> THEN [heap |-> h, at |-> at]
  ELSE IF Head(log).caller # caller THEN Alone(caller, Tail(log), h, at)
  ELSE LET r == Redo(h, Head(log), at)
       IN Alone(caller, Tail(log), r.heap,
                [x \in DOMAIN at \cup {Head(log).ret} |->
                   IF x = Head(log).ret THEN r.ret ELSE at[x]])

\* C22: concurrent derivation is safe.  However the calls of two callers
\* that derive from one base interleave, the base stays as it was, and every
\* Context a caller has derived is the one its calls return when they are
\* made alone.
C22_ConcurrentDerivation ==
  /\ heap[1] = last.base
  /\ \A caller \in Callers :
       LET alone == Alone(caller, last.log, <<last.base>>, [x \in {1} |-> 1])
       IN \A x \in DOMAIN alone.at : heap[x] = alone.heap[alone.at[x]]

\* Both callers have derived from the base, the one by add and the other by
\* merge or pick, and the Contexts they derived differ from the base.
C22_Witness ==
  /\ Len(last.log) = 2
  /\ last.log[1].caller # last.log[2].caller
  /\ last.log[1].self = 1 /\ last.log[2].self = 1
  /\ last.log[1].op = "add" /\ last.log[2].op # "add"
  /\ heap[2] # heap[1] /\ heap[3] # heap[1]

\* C23: the Service type parameter does not affect storage identity: it is
\* erased, Tag takes the key alone.  When Tag(k) has returned a second time,
\* a lookup with the Tag it returned gives what a Context holds for the Tag
\* constructed first with k, and an add with it replaces that entry and
\* creates none.
C23_TypeParameterErased ==
  (last.op = "Tag" /\ last.key \in Keys /\ last.repeated) =>
    \A first \in issued[last.key], r \in Refs :
      first \in TagsOf(heap[r]) =>
        /\ unsafeGet(heap, r, last.ret).ret = Returned(ServiceOf(heap[r], first))
        /\ \A v \in Services :
             LET a == add(heap, r, last.ret, v)
             IN /\ Len(a.heap[a.ret].unsafeMap) = Len(heap[r].unsafeMap)
                /\ unsafeGet(a.heap, a.ret, first).ret = Returned(v)

\* Tag(k) has returned a second time while a Context holds, next to another
\* Tag, the Tag constructed first with k.
C23_Witness ==
  /\ last.op = "Tag" /\ last.key \in Keys /\ last.repeated
  /\ \E r \in Refs :
       /\ issued[last.key] \cap TagsOf(heap[r]) # {}
       /\ Cardinality(TagsOf(heap[r])) = 2

\* C24: keyed Tags stay distinct.  The Tags two different keys returned are
\* different, no Tag a key returned is a Tag a call without a key returned,
\* and a Context that holds the one and not the other answers None to a
\* lookup with the other.
C24_KeyedDistinct ==
  /\ \A k1 \in Keys \cup {NoKey}, k2 \in Keys \cup {NoKey} :
       k1 # k2 => issued[k1] \cap issued[k2] = {}
  /\ \A r \in Refs, k2 \in Keys \cup {NoKey} :
       \A t2 \in issued[k2] \ TagsOf(heap[r]) :
         (\E k1 \in (Keys \cup {NoKey}) \ {k2} : issued[k1] \cap TagsOf(heap[r]) # {})
           => getOption(heap, r, t2).ret = none

\* Tags were constructed with both keys, and a Context holds the one and
\* not the other.
C24_Witness ==
  /\ issued["PORT"] # {} /\ issued["HOST"] # {}
  /\ \E r \in Refs :
       /\ issued["PORT"] \cap TagsOf(heap[r]) # {}
       /\ issued["HOST"] \cap TagsOf(heap[r]) = {}

\* C25: the registry of keyed Tags is stable.  No step changes or removes
\* the Tag registered for a key, the registry holds Tags for keys only, each
\* one a Tag that the calls with that key returned, and a call without a key
\* leaves the registry as it was.
C25_RegistryStable ==
  [][/\ \A k \in DOMAIN globalStore :
          k \in DOMAIN globalStore' /\ globalStore'[k] = globalStore[k]
     /\ DOMAIN globalStore' \subseteq Keys
     /\ \A k \in DOMAIN globalStore' : globalStore'[k] \in issued'[k]
     /\ (nextTag' # nextTag /\ last'.op = "Tag" /\ last'.key = NoKey)
          => globalStore' = globalStore]_vars

\* Tag() has returned while a Tag is registered for a key, before any Context
\* was built.
C25_Witness ==
  /\ last.op = "Tag" /\ last.key = NoKey
  /\ DOMAIN globalStore # {}
  /\ heap = << >>

\* C26: last write wins.  When add(C, t, v1) has returned R, add(R, t, v2)
\* equals add(C, t, v2) for every v2: it holds v2 for t, and v1 only where C
\* held it for another Tag.
C26_LastWriteWins ==
  last.op = "add" =>
    \A v2 \in Services :
      LET second == add(heap, last.ret, last.tag, v2)
          direct == add(second.heap, last.self, last.tag, v2)
      IN /\ Context_equals(direct.heap, second.ret, direct.ret)
         /\ Entries(direct.heap[second.ret]) =
              {<<last.tag, v2>>} \cup {e \in Entries(heap[last.self]) : e[1] # last.tag}

\* add has returned for a Tag that a Context of one other Tag did not hold.
C26_Witness ==
  /\ last.op = "add"
  /\ last.tag \notin TagsOf(heap[last.self])
  /\ Len(heap[last.self].unsafeMap) = 1

\* C27: add agrees with merge of a singleton.  What add(C, t, v) returns
\* equals merge(C, make(t, v)), and what make(t, v) returns equals
\* add(empty(), t, v).
C27_AddIsMergeOfMake ==
  /\ last.op = "add" =>
       LET m == make(heap, last.tag, last.service)
           u == merge(m.heap, last.self, m.ret)
       IN /\ Context_equals(u.heap, last.ret, u.ret)
          /\ Context_equals(u.heap, u.ret, last.ret)
  /\ last.op = "make" =>
       LET e == empty(heap)
           a == add(e.heap, e.ret, last.tag, last.service)
       IN /\ Context_equals(a.heap, last.ret, a.ret)
          /\ Context_equals(a.heap, a.ret, last.ret)

\* add has replaced the service of the Tag a Context of two Tags held first.
C27_Witness ==
  /\ last.op = "add"
  /\ Len(heap[last.self].unsafeMap) = 2
  /\ heap[last.self].unsafeMap[1].tag = last.tag
  /\ heap[last.self].unsafeMap[1].service # last.service

\* The Maps a third Context may hold.
ThirdMaps == MapsOver(1..MaxTags, Services)

\* C28: merge is associative.  When merge(A, B) has returned, for every
\* Context C, merge(merge(A, B), C) equals merge(A, merge(B, C)).
C28_MergeAssociative ==
  last.op = "merge" =>
    \A m \in ThirdMaps :
      LET C == Alloc(heap, m)
          left == merge(C.heap, last.ret, C.ret)
          bc == merge(left.heap, last.that, C.ret)
          right == merge(bc.heap, last.self, bc.ret)
      IN /\ Context_equals(right.heap, left.ret, right.ret)
         /\ Entries(right.heap[left.ret]) = Entries(right.heap[right.ret])

\* merge has returned for two Contexts of two Tags that hold different
\* services for a Tag.
C28_Witness ==
  /\ last.op = "merge"
  /\ Len(heap[last.self].unsafeMap) = 2 /\ Len(heap[last.that].unsafeMap) = 2
  /\ \E t \in TagsOf(heap[last.self]) :
       ServiceOf(heap[last.self], t) # ServiceOf(heap[last.that], t)

\* C29: pick composes by intersection.  When pick(C, T) has returned R, for
\* every list U pick(R, U) equals pick(C, T \cap U), so that pick(R, T)
\* equals R; R equals C when T lists every Tag of C, and R equals empty()
\* when T lists none.
C29_PickComposes ==
  last.op = "pick" =>
    /\ \A U \in SUBSET TagsMade :
         LET again == pick(heap, last.ret, U)
             direct == pick(again.heap, last.self, last.tags \cap U)
         IN Context_equals(direct.heap, again.ret, direct.ret)
    /\ LET same == pick(heap, last.ret, last.tags)
       IN Context_equals(same.heap, same.ret, last.ret)
    /\ TagsOf(heap[last.self]) \subseteq last.tags
         => Context_equals(heap, last.ret, last.self)
    /\ last.tags = {} =>
         LET e == empty(heap) IN Context_equals(e.heap, last.ret, e.ret)

\* pick has returned for a Context of two Tags and a list of one of them.
C29_Witness ==
  /\ last.op = "pick"
  /\ Len(heap[last.self].unsafeMap) = 2
  /\ Cardinality(last.tags) = 1
  /\ last.tags \subseteq TagsOf(heap[last.self])

\* C30: for Option, andThenDiscard(self, that) and tap(self, f) return self
\* when self is Some(a) and the second effect, that or f(a), is Some; they
\* return None in every other case, and never the value of the second
\* effect.
C30_OptionChainable ==
  /\ last.op = "andThenDiscard" =>
       last.ret = IF last.self.kind = "Some" /\ last.that.kind = "Some"
                    THEN last.self ELSE none
  /\ last.op = "tap" =>
       last.ret = IF last.self.kind = "Some" /\ last.f[last.self.value].kind = "Some"
                    THEN last.self ELSE none

\* tap has returned Some(a) for a function that gives Some of another number
\* for a.
C30_Witness ==
  /\ last.op = "tap"
  /\ last.self.kind = "Some"
  /\ last.f[last.self.value].kind = "Some"
  /\ last.f[last.self.value] # last.self
  /\ last.ret = last.self

====
